---- MODULE Spec2Model ----
(***************************************************************************)
(* lineflow core (src/lineflow/core.py): Dataset, ConcatDataset,           *)
(* MapDataset and CacheDataset over in-memory sequences, with pickle       *)
(* persistence (save / load).                                              *)
(*                                                                         *)
(* Python objects live in a heap h = [nodes, flists, files]:               *)
(*   nodes  : the Dataset objects, a node's identity is its position;      *)
(*   flists : the Python list objects held in _map_func_list attributes,   *)
(*            a list's identity is its position (two nodes alias a list    *)
(*            iff they hold the same position);                            *)
(*   files  : the file system, path -> pickled bytes.                      *)
(* Python indices are 0-based, TLA+ sequences 1-based: At(s, i) reads the  *)
(* Python position i.                                                      *)
(*                                                                         *)
(* Spec builds pipelines node by node (Dataset, map, concat, +, save,      *)
(* load); SpecAccess starts from a built pipeline and calls len() and      *)
(* slice reads on its last node.                                           *)
(***************************************************************************)
EXTENDS Integers, Sequences, FiniteSets, TLC

VARIABLES nodes, flists, files, last

vars == <<nodes, flists, files, last>>

\* ------------------------------------------------------------------ bounds
MaxNodes == 3
MaxRawLen == 2
MaxRest == 1
MaxSliceArg == 3
MaxStep == 2
MaxLenCalls == 2

\* ------------------------------------------------------------ input values
\* Python's None, as the value of the _length attribute.
None == -1

\* The raw in-memory sequences handed to Dataset(...): [b+1, ..., b+k].
RawListsOf(b) == {[j \in 1..k |-> b + j] : k \in 0..MaxRawLen}
RawLists == RawListsOf(0)

\* Callables handed to map().  A callable is the left-to-right composition of
\* primitive steps: <<"double">> is lambda x: x * 2, <<"increment">> is
\* lambda x: x + 1, <<"double", "increment">> is lambda x: increment(double(x)).
MapFuncs == {<<"double">>, <<"increment">>}

Paths == {"cache.pkl"}
NoFile == <<>>

\* An optional integer argument (a slice's start, stop, step): <<>> is None.
NoneArg == <<>>
Some(v) == <<v>>

\* ------------------------------------------------------- Python primitives
At(s, i) == s[i + 1]

RECURSIVE Call(_, _)
Call(fn, x) ==
  IF fn = <<>> THEN x
  ELSE LET y == IF Head(fn) = "double" THEN x * 2 ELSE x + 1
       IN  Call(Tail(fn), y)

\* The result of an indexed read: an element, or a raised IndexError.
Ok(v) == [ok |-> TRUE, val |-> v]
IndexError == [ok |-> FALSE, val |-> 0]

\* list.__getitem__ / tuple.__getitem__ with an integer index.
ListGetItem(l, i) ==
  IF 0 <= i /\ i < Len(l) THEN Ok(At(l, i))
  ELSE IF i < 0 /\ -Len(l) <= i THEN Ok(At(l, Len(l) + i))
  ELSE IndexError

\* bisect.bisect (bisect_right): the loop over lo, hi.
RECURSIVE BisectLoop(_, _, _, _)
BisectLoop(a, x, lo, hi) ==
  IF lo < hi
  THEN LET mid == (lo + hi) \div 2
       IN  IF x < At(a, mid) THEN BisectLoop(a, x, lo, mid)
           ELSE BisectLoop(a, x, mid + 1, hi)
  ELSE lo

\* Mutation: bisect_left in place of bisect_right.
bisect_left(a, x) == Cardinality({k \in 1..Len(a) : a[k] < x})

bisect(a, x) == BisectLoop(a, x, 0, Len(a))

\* itertools.accumulate: running sums.
RECURSIVE accumulate(_)
accumulate(s) ==
  IF Len(s) <= 1 THEN s
  ELSE LET p == accumulate(SubSeq(s, 1, Len(s) - 1))
       IN  Append(p, p[Len(p)] + s[Len(s)])

\* copy.deepcopy of a list of functions: a new list object, built element by
\* element; a function is copied as itself.
deepcopy(l) == [k \in 1..Len(l) |-> l[k]]

\* pickle.dump / pickle.load of a list of integers: the opcode stream
\* EMPTY_LIST MARK BININT* APPENDS STOP and the unpickler's stack machine.
PickleDump(l) ==
  <<[op |-> "EMPTY_LIST", arg |-> 0], [op |-> "MARK", arg |-> 0]>>
  \o [k \in 1..Len(l) |-> [op |-> "BININT", arg |-> l[k]]]
  \o <<[op |-> "APPENDS", arg |-> 0], [op |-> "STOP", arg |-> 0]>>

RECURSIVE PickleRun(_, _, _)
PickleRun(blob, obj, marked) ==
  LET t == Head(blob) IN
  IF t.op = "STOP" THEN obj
  ELSE IF t.op = "EMPTY_LIST" THEN PickleRun(Tail(blob), <<>>, <<>>)
  ELSE IF t.op = "MARK" THEN PickleRun(Tail(blob), obj, <<>>)
  ELSE IF t.op = "BININT" THEN PickleRun(Tail(blob), obj, Append(marked, t.arg))
  ELSE PickleRun(Tail(blob), obj \o marked, <<>>)

PickleLoad(blob) == PickleRun(blob, <<>>, <<>>)

\* ------------------------------------------------------------------- heap
EmptyHeap == [nodes |-> <<>>, flists |-> <<>>,
              files |-> [p \in Paths |-> NoFile]]

\* An object before any __init__ ran.  len_calls, get_length_calls,
\* len_returns, src, fn and path are history fields: the number of __len__ and
\* of get_length() runs on the node, the values its __len__ returned, and the
\* constructor's arguments.
NewObject(kind) ==
  [kind |-> kind, dataset_ref |-> 0, dataset_raw |-> <<>>, length |-> None,
   datasets |-> <<>>, lengths |-> <<>>, offsets |-> <<>>,
   map_func_list |-> 0, cache |-> <<>>,
   len_calls |-> 0, get_length_calls |-> 0, len_returns |-> {},
   src |-> <<>>, fn |-> <<>>, path |-> ""]

NodeIds(h) == 1..Len(h.nodes)
NewId(h) == Len(h.nodes) + 1

isinstance_MapDataset(nd) == nd.kind \in {"MapDataset", "CacheDataset"}

\* self._dataset: an attribute, except on ConcatDataset where it is a property
\* returning self.  ref = 0 means the attribute holds a raw list.
DatasetAttr(h, n) ==
  LET nd == h.nodes[n] IN
  IF nd.kind = "ConcatDataset" THEN [ref |-> n, raw |-> <<>>]
  ELSE [ref |-> nd.dataset_ref, raw |-> nd.dataset_raw]

\* A constructor argument: a Dataset node or a raw list.
NodeArg(n) == [is_node |-> TRUE, id |-> n, raw |-> <<>>]
RawArg(l) == [is_node |-> FALSE, id |-> 0, raw |-> l]

\* Dataset.__init__(self, dataset), acting on the object `self`.
Dataset_init(h, self, dataset) ==
  LET d == IF dataset.is_node THEN DatasetAttr(h, dataset.id)
           ELSE [ref |-> 0, raw |-> dataset.raw]
  IN  [self EXCEPT !.dataset_ref = d.ref, !.dataset_raw = d.raw,
                   !.length = None,
                   !.src = IF dataset.is_node THEN <<dataset.id>> ELSE <<>>]

Put(h, n, nd) == [h EXCEPT !.nodes[n] = nd]
Push(h, nd) == [h EXCEPT !.nodes = Append(@, nd)]

\* ----------------------------------------------------------------- length
\* Dataset.__len__ and Dataset.get_length; both return the heap after the call
\* and the value.  len(self._dataset) is len of a list, or __len__ of the
\* ConcatDataset the attribute refers to.
RECURSIVE Dataset_len(_, _), Dataset_get_length(_, _)

\* Mutation: __len__ that returns get_length() without storing it.
Dataset_len_unstored(h, n) ==
  IF h.nodes[n].length = None
  THEN LET r == Dataset_get_length(h, n)
           nd == r.h.nodes[n]
       IN  [h |-> Put(r.h, n, [nd EXCEPT !.len_calls = @ + 1,
                                    !.len_returns = @ \cup {r.val}]),
            val |-> r.val]
  ELSE LET nd == h.nodes[n]
       IN  [h |-> Put(h, n, [nd EXCEPT !.len_calls = @ + 1,
                                    !.len_returns = @ \cup {nd.length}]),
            val |-> nd.length]

Dataset_len(h, n) ==
  IF h.nodes[n].length = None
  THEN LET r == Dataset_get_length(h, n)
           nd == r.h.nodes[n]
       IN  [h |-> Put(r.h, n, [nd EXCEPT !.length = r.val,
                                         !.len_calls = @ + 1,
                                         !.len_returns = @ \cup {r.val}]),
            val |-> r.val]
  ELSE LET nd == h.nodes[n]
       IN  [h |-> Put(h, n, [nd EXCEPT !.len_calls = @ + 1,
                                    !.len_returns = @ \cup {nd.length}]),
            val |-> nd.length]

Dataset_get_length(h, n) ==
  LET d == DatasetAttr(h, n)
      h1 == Put(h, n, [h.nodes[n] EXCEPT !.get_length_calls = @ + 1])
  IN  IF d.ref = 0 THEN [h |-> h1, val |-> Len(d.raw)]
      ELSE Dataset_len(h1, d.ref)

\* ------------------------------------------------- iteration and indexing
RECURSIVE iter(_, _), get_example(_, _, _)

\* Dataset.__getitem__ with an integer index.
Dataset_getitem(h, n, index) == get_example(h, n, index)

\* `yield from self._dataset` / `for x in self._dataset`.
DatasetAttr_iter(h, n) ==
  LET d == DatasetAttr(h, n)
  IN  IF d.ref = 0 THEN d.raw ELSE iter(h, d.ref)

\* `self._dataset[i]`.
DatasetAttr_getitem(h, n, i) ==
  LET d == DatasetAttr(h, n)
  IN  IF d.ref = 0 THEN ListGetItem(d.raw, i) ELSE Dataset_getitem(h, d.ref, i)

Dataset_iter(h, n) == DatasetAttr_iter(h, n)

Dataset_get_example(h, n, i) == DatasetAttr_getitem(h, n, i)

RECURSIVE ChainIter(_, _, _)
ChainIter(h, ds, k) ==
  IF k > Len(ds) THEN <<>> ELSE iter(h, ds[k]) \o ChainIter(h, ds, k + 1)

ConcatDataset_iter(h, n) == ChainIter(h, h.nodes[n].datasets, 1)

\* `self._datasets[j][i - self._offsets[j]]`: the tuple index raises
\* IndexError when j is past the last child.
ChildGetItem(h, nd, j, i) ==
  IF j >= Len(nd.datasets) THEN IndexError
  ELSE Dataset_getitem(h, At(nd.datasets, j), i - At(nd.offsets, j))

ConcatDataset_get_example(h, n, i) ==
  ChildGetItem(h, h.nodes[n], bisect(h.nodes[n].lengths, i), i)

\* `for map_func in self._map_func_list: x = map_func(x)`.
RECURSIVE ApplyAll(_, _)
ApplyAll(fl, x) == IF fl = <<>> THEN x ELSE ApplyAll(Tail(fl), Call(Head(fl), x))

MapDataset_iter(h, n) ==
  LET up == DatasetAttr_iter(h, n)
      fl == h.flists[h.nodes[n].map_func_list]
  IN  [k \in 1..Len(up) |-> ApplyAll(fl, up[k])]

\* `for map_func in ...: x = map_func(x); return x` on the result of
\* self._dataset[i]; an IndexError raised there propagates.
ApplyTo(fl, x) == IF x.ok THEN Ok(ApplyAll(fl, x.val)) ELSE x

\* Mutation: get_example that skips the last function of the chain.
MapDataset_get_example_short(h, n, i) ==
  LET fl == h.flists[h.nodes[n].map_func_list]
  IN  ApplyTo(SubSeq(fl, 1, Len(fl) - 1), DatasetAttr_getitem(h, n, i))

MapDataset_get_example(h, n, i) ==
  ApplyTo(h.flists[h.nodes[n].map_func_list], DatasetAttr_getitem(h, n, i))

CacheDataset_iter(h, n) == h.nodes[n].cache

CacheDataset_get_example(h, n, i) == ListGetItem(h.nodes[n].cache, i)

\* Method resolution by class.
iter(h, n) ==
  LET k == h.nodes[n].kind IN
  IF k = "ConcatDataset" THEN ConcatDataset_iter(h, n)
  ELSE IF k = "MapDataset" THEN MapDataset_iter(h, n)
  ELSE IF k = "CacheDataset" THEN CacheDataset_iter(h, n)
  ELSE Dataset_iter(h, n)

get_example(h, n, i) ==
  LET k == h.nodes[n].kind IN
  IF k = "ConcatDataset" THEN ConcatDataset_get_example(h, n, i)
  ELSE IF k = "MapDataset" THEN MapDataset_get_example(h, n, i)
  ELSE IF k = "CacheDataset" THEN CacheDataset_get_example(h, n, i)
  ELSE Dataset_get_example(h, n, i)

\* ----------------------------------------------------------- constructors
\* Every constructor returns the heap with the new object appended; the new
\* object's identity is NewId of the heap it was given.

\* Dataset(dataset) on a raw list or on a node.
Dataset_new(h, dataset) ==
  Push(h, Dataset_init(h, NewObject("Dataset"), dataset))

\* `len(d) for d in datasets`: the calls run in order, each on the heap the
\* previous one left.
RECURSIVE LenEach(_, _, _, _)
LenEach(h, ds, k, acc) ==
  IF k > Len(ds) THEN [h |-> h, vals |-> acc]
  ELSE LET r == Dataset_len(h, ds[k])
       IN  LenEach(r.h, ds, k + 1, Append(acc, r.val))

\* ConcatDataset.__init__(self, *datasets), datasets non-empty.
ConcatDataset_init(h, datasets) ==
  LET r == LenEach(h, datasets, 1, <<>>)
      lengths == accumulate(r.vals)
      self == [NewObject("ConcatDataset") EXCEPT
                 !.datasets = datasets,
                 !.lengths = lengths,
                 !.length = lengths[Len(lengths)],
                 !.offsets = <<0>> \o SubSeq(lengths, 1, Len(lengths) - 1),
                 !.src = datasets]
  IN  Push(r.h, self)

\* Mutation: the new node takes the upstream's list object itself and appends
\* to it in place (no deepcopy).
MapDataset_init_alias(h, dataset, map_func) ==
  LET up == h.nodes[dataset]
      self == [NewObject("MapDataset") EXCEPT !.fn = map_func]
  IN  IF isinstance_MapDataset(up)
      THEN LET h1 == [h EXCEPT !.flists[up.map_func_list] = Append(@, map_func)]
           IN  Push(h1, Dataset_init(h1,
                   [self EXCEPT !.map_func_list = up.map_func_list],
                   NodeArg(dataset)))
      ELSE LET h1 == [h EXCEPT !.flists = Append(@, <<map_func>>)]
           IN  Push(h1, Dataset_init(h1,
                   [self EXCEPT !.map_func_list = Len(h1.flists)],
                   NodeArg(dataset)))

\* Mutation: the upstream's function list is not inherited.
MapDataset_init_fresh(h, dataset, map_func) ==
  LET h1 == [h EXCEPT !.flists = Append(@, <<map_func>>)]
      self == [NewObject("MapDataset") EXCEPT
                 !.fn = map_func, !.map_func_list = Len(h1.flists)]
  IN  Push(h1, Dataset_init(h1, self, NodeArg(dataset)))

\* MapDataset.__init__(self, dataset, map_func).
MapDataset_init(h, dataset, map_func) ==
  LET up == h.nodes[dataset]
      map_func_list ==
        IF isinstance_MapDataset(up)
        THEN Append(deepcopy(h.flists[up.map_func_list]), map_func)
        ELSE <<map_func>>
      h1 == [h EXCEPT !.flists = Append(@, map_func_list)]
      self == [NewObject("MapDataset") EXCEPT
                 !.fn = map_func, !.map_func_list = Len(h1.flists)]
  IN  Push(h1, Dataset_init(h1, self, NodeArg(dataset)))

\* CacheDataset.__init__(self, dataset, cache): the attributes are set, then
\* Dataset.__init__ runs (super(MapDataset, self).__init__).
CacheDataset_init(h, dataset, cache) ==
  LET up == h.nodes[dataset]
      map_func_list ==
        IF isinstance_MapDataset(up)
        THEN deepcopy(h.flists[up.map_func_list])
        ELSE <<>>
      h1 == [h EXCEPT !.flists = Append(@, map_func_list)]
      self == [NewObject("CacheDataset") EXCEPT
                 !.map_func_list = Len(h1.flists),
                 !.cache = cache,
                 !.length = Len(cache)]
  IN  Push(h1, Dataset_init(h1, self, NodeArg(dataset)))

\* ---------------------------------------------------------------- methods
Dataset_map(h, n, map_func) == MapDataset_init(h, n, map_func)

Dataset_concat(h, n, rest) == ConcatDataset_init(h, <<n>> \o rest)

Dataset_add(h, n, other) == ConcatDataset_init(h, <<n, other>>)

\* list(self)
Dataset_all(h, n) == iter(h, n)

\* Mutation: save() snapshots self._dataset instead of iterating self.
Dataset_save_upstream(h, n, filename) ==
  LET cache == DatasetAttr_iter(h, n)
      h1 == [h EXCEPT !.files[filename] = PickleDump(cache)]
  IN  CacheDataset_init(h1, n, cache)

Dataset_save(h, n, filename) ==
  LET cache == iter(h, n)
      h1 == [h EXCEPT !.files[filename] = PickleDump(cache)]
  IN  CacheDataset_init(h1, n, cache)

\* Dataset.load(filename); the file must exist.
Dataset_load(h, filename) ==
  LET dataset == PickleLoad(h.files[filename])
      self == Dataset_init(h, NewObject("Dataset"), RawArg(dataset))
  IN  Push(h, [self EXCEPT !.path = filename])

\* ---------------------------------------------------------------- slicing
\* slice(start, stop, step).indices(length), step /= 0: None defaults, negative
\* values taken from the end, then clamped to [lower, upper].
SliceClamp(v, length, lower, upper) ==
  IF v < 0 THEN (IF v + length < lower THEN lower ELSE v + length)
  ELSE (IF v > upper THEN upper ELSE v)

\* Mutation: negative start and stop are clamped without adding the length.
slice_indices_noshift(start, stop, step, length) ==
  LET st == IF step = NoneArg THEN 1 ELSE step[1]
      lower == IF st < 0 THEN -1 ELSE 0
      upper == IF st < 0 THEN length - 1 ELSE length
      cl(v) == IF v < lower THEN lower ELSE IF v > upper THEN upper ELSE v
  IN  [start |-> IF start = NoneArg THEN (IF st < 0 THEN upper ELSE lower)
                 ELSE cl(start[1]),
       stop |-> IF stop = NoneArg THEN (IF st < 0 THEN lower ELSE upper)
                ELSE cl(stop[1]),
       step |-> st]

slice_indices(start, stop, step, length) ==
  LET st == IF step = NoneArg THEN 1 ELSE step[1]
      lower == IF st < 0 THEN -1 ELSE 0
      upper == IF st < 0 THEN length - 1 ELSE length
  IN  [start |-> IF start = NoneArg THEN (IF st < 0 THEN upper ELSE lower)
                 ELSE SliceClamp(start[1], length, lower, upper),
       stop |-> IF stop = NoneArg THEN (IF st < 0 THEN lower ELSE upper)
                ELSE SliceClamp(stop[1], length, lower, upper),
       step |-> st]

\* range(start, stop, step) as a list, step /= 0.
RECURSIVE range(_, _, _)
range(start, stop, step) ==
  IF (step > 0 /\ start < stop) \/ (step < 0 /\ start > stop)
  THEN <<start>> \o range(start + step, stop, step)
  ELSE <<>>

\* Dataset.__getitem__ with a slice.  len(self) runs first; a zero step then
\* raises ValueError.  indices are the values handed to get_example, items the
\* results of those calls.
Dataset_getitem_slice(h, n, start, stop, step) ==
  LET r == Dataset_len(h, n) IN
  IF step = Some(0)
  THEN [h |-> r.h, ok |-> FALSE, indices |-> <<>>, items |-> <<>>]
  ELSE LET ix == slice_indices(start, stop, step, r.val)
           idx == range(ix.start, ix.stop, ix.step)
       IN  [h |-> r.h, ok |-> TRUE, indices |-> idx,
            items |-> [k \in 1..Len(idx) |-> get_example(r.h, n, idx[k])]]

\* ------------------------------------------------------------------ state
H == [nodes |-> nodes, flists |-> flists, files |-> files]

Becomes(h) == nodes' = h.nodes /\ flists' = h.flists /\ files' = h.files

\* last: what ran last and the node it built or acted on: the constructor of a
\* new node ("load" for Dataset.load), "len" or "getitem".
Did(op, n) == [op |-> op, node |-> n]

Init ==
  /\ nodes = EmptyHeap.nodes
  /\ flists = EmptyHeap.flists
  /\ files = EmptyHeap.files
  /\ last = Did("none", 0)

\* The sequences of at most MaxRest existing nodes.
RECURSIVE SeqsUpTo(_, _)
SeqsUpTo(S, k) ==
  IF k = 0 THEN {<<>>}
  ELSE LET prev == SeqsUpTo(S, k - 1)
       IN  prev \cup {Append(q, x) : q \in {p \in prev : Len(p) = k - 1}, x \in S}

CanBuild == Len(nodes) < MaxNodes

WrapRaw ==
  \E l \in RawLists :
    /\ CanBuild
    /\ Becomes(Dataset_new(H, RawArg(l)))
    /\ last' = Did("Dataset", NewId(H))

WrapNode ==
  \E n \in NodeIds(H) :
    /\ CanBuild
    /\ Becomes(Dataset_new(H, NodeArg(n)))
    /\ last' = Did("Dataset", NewId(H))

Map ==
  \E n \in NodeIds(H), f \in MapFuncs :
    /\ CanBuild
    /\ Becomes(Dataset_map(H, n, f))
    /\ last' = Did("MapDataset", NewId(H))

Concat ==
  \E n \in NodeIds(H) : \E rest \in SeqsUpTo(NodeIds(H), MaxRest) :
    /\ CanBuild
    /\ Becomes(Dataset_concat(H, n, rest))
    /\ last' = Did("ConcatDataset", NewId(H))

Add ==
  \E n \in NodeIds(H), other \in NodeIds(H) :
    /\ CanBuild
    /\ Becomes(Dataset_add(H, n, other))
    /\ last' = Did("ConcatDataset", NewId(H))

Save ==
  \E n \in NodeIds(H), p \in Paths :
    /\ CanBuild
    /\ Becomes(Dataset_save(H, n, p))
    /\ last' = Did("CacheDataset", NewId(H))

Load ==
  \E p \in Paths :
    /\ CanBuild
    /\ files[p] /= NoFile
    /\ Becomes(Dataset_load(H, p))
    /\ last' = Did("load", NewId(H))

Next == WrapRaw \/ WrapNode \/ Map \/ Concat \/ Add \/ Save \/ Load

Spec == Init /\ [][Next]_vars

\* ----------------------------------------------- access to a built dataset
\* The pipelines whose last node is the dataset under access: every class, over
\* raw lists, concatenations, transform chains and snapshots.
Plain(l) == Dataset_new(EmptyHeap, RawArg(l))
Mapped(l, f) == Dataset_map(Plain(l), 1, f)
Paired(l, m, f) == Dataset_add(Dataset_new(Mapped(l, f), RawArg(m)), 2, 3)
Saved(l, f, p) == Dataset_save(Mapped(l, f), 2, p)

Pipelines ==
  LET Ls == RawListsOf(0)
      Ms == RawListsOf(10)
  IN
  {Plain(l) : l \in Ls}
  \cup {Dataset_new(Mapped(l, f), NodeArg(2)) : l \in Ls, f \in MapFuncs}
  \cup {Dataset_map(Mapped(l, f), 2, g) : l \in Ls, f \in MapFuncs, g \in MapFuncs}
  \cup {Paired(l, m, f) : l \in Ls, m \in Ms, f \in MapFuncs}
  \cup {Dataset_map(Paired(l, m, f), 4, f) : l \in Ls, m \in Ms, f \in MapFuncs}
  \cup {Dataset_concat(Paired(l, m, f), 4, <<2, 4>>) :
          l \in Ls, m \in Ms, f \in MapFuncs}
  \cup {Saved(l, f, p) : l \in Ls, f \in MapFuncs, p \in Paths}
  \cup {Dataset_load(Saved(l, f, p), p) : l \in Ls, f \in MapFuncs, p \in Paths}
  \cup {Dataset_map(Saved(l, f, p), 3, g) :
          l \in Ls, f \in MapFuncs, g \in MapFuncs, p \in Paths}

InitAccess ==
  \E h \in Pipelines :
    /\ nodes = h.nodes
    /\ flists = h.flists
    /\ files = h.files
    /\ last = Did("none", 0)

Subject == Len(nodes)

SliceArgs == {NoneArg} \cup {Some(v) : v \in -MaxSliceArg..MaxSliceArg}
StepArgs == {NoneArg} \cup {Some(v) : v \in -MaxStep..MaxStep}

\* The history counter len_calls is capped.
CanCall == nodes[Subject].len_calls < MaxLenCalls

\* len(S)
LenCall ==
  /\ CanCall
  /\ Becomes(Dataset_len(H, Subject).h)
  /\ last' = Did("len", Subject)

\* S[start:stop:step]
SliceCall ==
  \E start \in SliceArgs, stop \in SliceArgs, step \in StepArgs :
    /\ CanCall
    /\ Becomes(Dataset_getitem_slice(H, Subject, start, stop, step).h)
    /\ last' = Did("getitem", Subject)

NextAccess == LenCall \/ SliceCall

SpecAccess == InitAccess /\ [][NextAccess]_vars

\* ================================================================= claims
\* S.length() as a value.
Length(h, n) == Dataset_len(h, n).val

Sum(s) == IF s = <<>> THEN 0 ELSE accumulate(s)[Len(s)]

\* C1: on every node built by wrap, map, concat and persist, get(i) for
\* 0 <= i < length() returns the i-th element that iterate() produces.
C1_GetMatchesIterate ==
  \A n \in NodeIds(H) :
    LET it == iter(H, n) IN
    \A i \in 0..(Length(H, n) - 1) :
      /\ i < Len(it)
      /\ Dataset_getitem(H, n, i) = Ok(At(it, i))

\* C1 witness: a concatenation with a transform-chain child and at least three
\* elements has been built.
C1_Witness ==
  \E n \in NodeIds(H) :
    /\ nodes[n].kind = "ConcatDataset"
    /\ \E k \in 1..Len(nodes[n].datasets) :
         nodes[nodes[n].datasets[k]].kind = "MapDataset"
    /\ Len(iter(H, n)) >= 3

\* The concatenation law for the node c of heap h built from the children
\* c.src: the length is the sum of the children's lengths and index i belongs
\* to the one child j whose range [offset_j, offset_j + length_j) holds i.
ConcatLaw(h, c) ==
  LET ds == h.nodes[c].src
      lens == [k \in 1..Len(ds) |-> Length(h, ds[k])]
      offset(j) == Sum(SubSeq(lens, 1, j - 1))
  IN  /\ Length(h, c) = Sum(lens)
      /\ \A i \in 0..(Sum(lens) - 1) :
           /\ Cardinality({j \in 1..Len(ds) :
                             offset(j) <= i /\ i < offset(j) + lens[j]}) = 1
           /\ \A j \in 1..Len(ds) :
                (offset(j) <= i /\ i < offset(j) + lens[j]) =>
                  /\ Dataset_getitem(h, c, i).ok
                  /\ Dataset_getitem(h, c, i)
                       = Dataset_getitem(h, ds[j], i - offset(j))

\* C2: a Concatenation Node over S1..Sk (any of them possibly empty) has the
\* summed length and get(i) = Sj.get(i - offset_j) for the owning child j.
C2_ConcatLaw ==
  \A c \in NodeIds(H) : nodes[c].kind = "ConcatDataset" => ConcatLaw(H, c)

\* C2 witness: a concatenation whose first child is empty and whose second
\* child holds at least two elements, so index 0 resolves past a zero-width
\* boundary.
C2_Witness ==
  \E c \in NodeIds(H) :
    /\ nodes[c].kind = "ConcatDataset"
    /\ Len(nodes[c].datasets) = 2
    /\ Length(H, nodes[c].datasets[1]) = 0
    /\ Length(H, nodes[c].datasets[2]) >= 2

\* The indices next to and outside [0, length).
Outside(h, n) ==
  LET L == Length(h, n) IN (-(L + 2))..(-1) \cup L..(L + 2)

\* C5: get(i) fails for every i < 0 and every i >= length(), on every node.
C5_OutOfRangeFails ==
  \A n \in NodeIds(H) : \A i \in Outside(H, n) : ~Dataset_getitem(H, n, i).ok

\* C8: a Materialized Cache Node holds its snapshot's length in the cached
\* length field from construction on, and get_length never runs on it.
C8_CacheLengthFixed ==
  \A n \in NodeIds(H) :
    nodes[n].kind = "CacheDataset" =>
      /\ nodes[n].length = Len(nodes[n].cache)
      /\ nodes[n].get_length_calls = 0

\* C10: Dataset(S) over any node S has S's length, elements and iteration.
C10_WrapTransparent ==
  \A S \in NodeIds(H) :
    LET h1 == Dataset_new(H, NodeArg(S))
        W == NewId(H)
    IN  /\ Length(h1, W) = Length(H, S)
        /\ iter(h1, W) = iter(H, S)
        /\ \A i \in 0..(Length(H, S) - 1) :
             Dataset_getitem(h1, W, i) = Dataset_getitem(H, S, i)

\* The reads u of U, b of U.map(f).map(g) and s of U.map(lambda x: g(f(x))) at
\* one index: u succeeds, b is g(f(u)), and s is b.
ReadsCompose(u, b, s, f, g) ==
  /\ u.ok
  /\ b = Ok(Call(g, Call(f, u.val)))
  /\ s = b

\* U.map(f).map(g) against g(f(U.get(i))), g(f(x)) over U's elements in order,
\* and the single-step node U.map(lambda x: g(f(x))).
MapComposes(h, U, f, g) ==
  LET h1 == Dataset_map(h, U, f)
      h2 == Dataset_map(h1, NewId(h), g)
      B == NewId(h1)
      hs == Dataset_map(h, U, f \o g)
      One == NewId(h)
      itU == iter(h, U)
  IN  /\ iter(h2, B) = [k \in 1..Len(itU) |-> Call(g, Call(f, itU[k]))]
      /\ iter(hs, One) = iter(h2, B)
      /\ \A i \in 0..(Length(h, U) - 1) :
           ReadsCompose(Dataset_getitem(h, U, i), Dataset_getitem(h2, B, i),
                        Dataset_getitem(hs, One, i), f, g)

\* C3: over an upstream U of any class, U.map(f).map(g) reads g(f(U.get(i)))
\* at every valid i, iterates g(f(x)) over U's elements in order, and agrees
\* with the single-step node U.map(lambda x: g(f(x))).  U is the node the last
\* operation built: every node is, in the state its construction leads to.
C3_MapComposes ==
  last.node /= 0 =>
    \A f \in MapFuncs, g \in MapFuncs : MapComposes(H, last.node, f, g)

\* C3 witness: a node built by map(g) over a node built by map(f), f /= g, over
\* a non-empty upstream, exists.
C3_Witness ==
  \E B \in NodeIds(H) :
    /\ nodes[B].kind = "MapDataset"
    /\ LET A == nodes[B].src[1] IN
       /\ nodes[A].kind = "MapDataset"
       /\ nodes[A].fn /= nodes[B].fn
       /\ Length(H, nodes[A].src[1]) >= 2

\* C4: after S.persist(path), restore(path) iterates S's elements in S's order,
\* has S's length, and carries no transform chain.
C4_PersistRestore ==
  \A S \in NodeIds(H) : \A p \in Paths :
    LET h1 == Dataset_save(H, S, p)
        h2 == Dataset_load(h1, p)
        R == NewId(h1)
        it == iter(H, S)
    IN  /\ iter(h2, R) = it
        /\ Length(h2, R) = Length(H, S)
        /\ h2.nodes[R].kind = "Dataset"
        /\ h2.nodes[R].map_func_list = 0
        /\ \A i \in 0..(Len(it) - 1) : Dataset_getitem(h2, R, i) = Ok(At(it, i))

\* C4 witness: a transform-chain node with elements has been persisted to the
\* path, so the file holds its transformed elements.
C4_Witness ==
  /\ last.op = "CacheDataset"
  /\ LET S == nodes[last.node].src[1] IN
     /\ nodes[S].kind = "MapDataset"
     /\ Len(iter(H, S)) >= 2
     /\ \E p \in Paths : PickleLoad(files[p]) = iter(H, S)

\* What a node shows to its users: the function list (object and content), the
\* upstream reference, and what get and iterate return.
View(h, n) ==
  LET nd == h.nodes[n] IN
  [list_id |-> nd.map_func_list,
   list |-> IF nd.map_func_list = 0 THEN <<>> ELSE h.flists[nd.map_func_list],
   dataset_ref |-> nd.dataset_ref, dataset_raw |-> nd.dataset_raw,
   datasets |-> nd.datasets, cache |-> nd.cache,
   items |-> iter(h, n),
   gets |-> [i \in 0..(Length(h, n) - 1) |-> Dataset_getitem(h, n, i)]]

NoSharedList(h) ==
  \A a \in NodeIds(h), b \in NodeIds(h) :
    (a /= b /\ h.nodes[a].map_func_list /= 0) =>
      h.nodes[a].map_func_list /= h.nodes[b].map_func_list

H2 == [nodes |-> nodes', flists |-> flists', files |-> files']

\* C9: a step M.map(g), M.concat(...), M + X or M.persist(path) leaves every
\* existing node's function list, upstream reference, get and iterate as they
\* were; the node map(g) builds holds a list object of its own whose content is
\* M's list with g appended ([g] when M has none); no two nodes share a list.
C9_BuildDoesNotMutate ==
  [][last'.op \in {"MapDataset", "ConcatDataset", "CacheDataset"} =>
       /\ \A n \in NodeIds(H) : View(H2, n) = View(H, n)
       /\ NoSharedList(H2)
       /\ last'.op = "MapDataset" =>
            LET new == nodes'[last'.node]
                M == new.src[1]
            IN  /\ new.map_func_list /= nodes[M].map_func_list
                /\ flists'[new.map_func_list] = Append(View(H, M).list, new.fn)
    ]_vars

\* C9 witness: a transform-chain node has been built by map over another
\* transform-chain node, and a cache node over a transform-chain node.
C9_Witness ==
  /\ \E B \in NodeIds(H) :
       /\ nodes[B].kind = "MapDataset"
       /\ nodes[nodes[B].src[1]].kind = "MapDataset"
       /\ Len(flists[nodes[B].map_func_list]) = 2
  /\ Len(nodes) >= 3

\* ------------------------------------------------------ claims on access
\* C6: on every node get_length runs at most once, all length() calls return
\* one value, and a populated length field is never overwritten or cleared by
\* a length() or slice call.
C6_LengthOnce ==
  /\ [](\A n \in NodeIds(H) :
          /\ nodes[n].get_length_calls <= 1
          /\ Cardinality(nodes[n].len_returns) <= 1
          /\ nodes[n].len_calls > 0 => nodes[n].len_returns = {nodes[n].length})
  /\ [][\A n \in NodeIds(H) :
          nodes[n].length /= None => nodes'[n].length = nodes[n].length]_vars

\* C6 witness: length() has run at least twice on a transform-chain node, the
\* first run computing the length.
C6_Witness ==
  /\ nodes[Subject].kind = "MapDataset"
  /\ nodes[Subject].len_calls >= 2
  /\ nodes[Subject].get_length_calls = 1
  /\ nodes[Subject].length >= 2

\* Python's list slicing l[start:stop:step], step /= 0, by position sets: the
\* positions x of l with first <= x < end, (x - first) a multiple of step, in
\* ascending order (step > 0); with first >= x > end, (first - x) a multiple of
\* -step, in descending order (step < 0).
ListSlice(l, start, stop, step) ==
  LET L == Len(l)
      st == IF step = NoneArg THEN 1 ELSE step[1]
      rel(v) == IF v < 0 THEN v + L ELSE v
      first == IF start = NoneArg THEN (IF st > 0 THEN 0 ELSE L - 1)
               ELSE rel(start[1])
      end == IF stop = NoneArg THEN (IF st > 0 THEN L ELSE -1)
             ELSE IF st < 0 /\ rel(stop[1]) < 0 THEN -1 ELSE rel(stop[1])
      f0 == IF st > 0 THEN (IF first < 0 THEN 0 ELSE first)
            ELSE (IF first > L - 1 THEN L - 1 ELSE first)
      pos == IF st > 0
             THEN {x \in 0..(L - 1) : f0 <= x /\ x < end /\ (x - f0) % st = 0}
             ELSE {x \in 0..(L - 1) : f0 >= x /\ x > end /\ (f0 - x) % (-st) = 0}
      nth(k) == CHOOSE x \in pos :
                  Cardinality({y \in pos : IF st > 0 THEN y < x ELSE y > x}) = k - 1
  IN  [k \in 1..Cardinality(pos) |-> At(l, nth(k))]

SliceLaw(h, n, start, stop, step) ==
  LET r == Dataset_getitem_slice(h, n, start, stop, step)
      L == Length(h, n)
      ref == ListSlice(iter(h, n), start, stop, step)
  IN  /\ r.ok
      /\ \A k \in 1..Len(r.indices) : 0 <= r.indices[k] /\ r.indices[k] < L
      /\ r.items = [k \in 1..Len(ref) |-> Ok(ref[k])]

\* C7: S[start:stop:step], step /= 0, hands get only indices of [0, len(S)) and
\* returns the same slice of the list S iterates, for negative, missing and
\* out-of-range start and stop and for negative steps.
C7_SliceLaw ==
  \A start \in SliceArgs, stop \in SliceArgs, step \in StepArgs \ {Some(0)} :
    SliceLaw(H, Subject, start, stop, step)

\* C7 witness: a slice has been taken of a concatenation of four or more
\* elements, for which a reversed slice with out-of-range bounds is not empty.
C7_Witness ==
  /\ last.op = "getitem"
  /\ nodes[Subject].kind = "ConcatDataset"
  /\ Length(H, Subject) >= 4
  /\ Len(Dataset_getitem_slice(H, Subject, Some(MaxSliceArg), Some(-MaxSliceArg),
                               Some(-2)).items) >= 1

====
